---------------------------- MODULE Spec2Model ----------------------------
(***************************************************************************)
(* A model of the augmented B-tree of src/src/lib.rs with the prefix-sum   *)
(* augmentation (SumAugment) of src/src/augments.rs.                       *)
(*                                                                         *)
(* A node is a record [n, keys, children, aug_val].  `keys` is the fixed   *)
(* array of 2*MIN_DEGREE-1 slots; a slot holds a pair <<key, value>> or    *)
(* NEW_KEY (uninitialised / moved out).  `children` is the Vec of child    *)
(* nodes.  Rust indices are 0-based; slot i of the source is keys[i+1]     *)
(* here, and child i is children[i+1].  An Option is a sequence of length  *)
(* 0 (None) or 1 (Some).                                                   *)
(*                                                                         *)
(* The source fixes MIN_DEGREE = 6 (lib.rs:7).  Every algorithm is         *)
(* parametric in it; the model instantiates it at the smallest legal       *)
(* degree so that trees of height 3, internal splits, merges and steals    *)
(* with child migration are all reached with a handful of keys.            *)
(***************************************************************************)
EXTENDS Integers, Sequences, FiniteSets, TLC

MIN_DEGREE == 2

MaxKey == 10

AltKeys == 1

\* Width in bits of the signed integer type of values and summaries (the
\* tests use i32); the model scales it down with the values.
IntBits == 7

KeySet == 1..MaxKey

\* Keys offered to the read-only queries: every key and one beyond each end.
QuerySet == 0..(MaxKey + 1)

\* The value a key is normally inserted with (the tests insert (i, i)) and
\* the second value a caller may offer for the same key.
Canon(k) == k

Alt(k) == k + MaxKey

None == <<>>

Some(x) == <<x>>

Cap == 2 * MIN_DEGREE - 1

\* MaybeUninit::uninit(): a slot that holds no pair
NEW_KEY == <<>>

-----------------------------------------------------------------------------
(* SumAugment: impl Augment<K, V> for SumAugment (augments.rs:59-161)      *)

RECURSIVE SumVals(_)
SumVals(pairs) ==
    IF pairs = <<>> THEN 0 ELSE pairs[1][2] + SumVals(Tail(pairs))

RECURSIVE SumSeq(_)
SumSeq(s) ==
    IF s = <<>> THEN 0 ELSE s[1] + SumSeq(Tail(s))

A_initial_value == 0

A_initial_output == 0

A_inserted_sub_tree(key, value, old) == old + value

\* Variant: the summary is left as it was.
A_deleted_sub_tree_noop(key, value, old) == old

A_deleted_sub_tree(key, value, old) == old - value

\* Variant: the median's value is not taken out of the right summary.
A_split_keep_median(left_keys, right_keys, median, left_children, right_children, old) ==
    LET left == SumVals(left_keys) + SumSeq(left_children)
        right == old - left
    IN  <<left, right>>

A_split(left_keys, right_keys, median, left_children, right_children, old) ==
    LET left == SumVals(left_keys) + SumSeq(left_children)
        right == (old - median[2]) - left
    IN  <<left, right>>

A_split_root(root_pair, left, right) == (root_pair[2] + left) + right

\* Variant: the parent pair's value is left out of the merged summary.
A_merge_no_parent(parent_pair, left, right) == left + right

A_merge(parent_pair, left, right) == (left + right) + parent_pair[2]

\* Variant: the two summaries are returned as (victim, thief).
A_steal_swapped(parent_pair, victim_pair, stolen_child, thief, victim) ==
    IF stolen_child # None
    THEN <<(victim - victim_pair[2]) - stolen_child[1],
           (thief + parent_pair[2]) + stolen_child[1]>>
    ELSE <<victim - victim_pair[2], thief + parent_pair[2]>>

A_steal(parent_pair, victim_pair, stolen_child, thief, victim) ==
    IF stolen_child # None
    THEN <<(thief + parent_pair[2]) + stolen_child[1],
           (victim - victim_pair[2]) - stolen_child[1]>>
    ELSE <<thief + parent_pair[2], victim - victim_pair[2]>>

\* Variant: only the strictly smaller prefix is folded, also on a match.
A_visit_strict(found, idx, keys, children, value, acc) ==
    acc + SumVals(SubSeq(keys, 1, idx)) + SumSeq(SubSeq(children, 1, idx))

A_visit(found, idx, keys, children, value, acc) ==
    LET acc1 == acc + SumVals(SubSeq(keys, 1, idx))
        acc2 == IF found THEN acc1 + keys[idx + 1][2] ELSE acc1
        num_children == IF found THEN idx + 1 ELSE idx
        taken == SubSeq(children, 1,
                        IF num_children < Len(children) THEN num_children
                                                        ELSE Len(children))
    IN  acc2 + SumSeq(taken)

-----------------------------------------------------------------------------
(* Node (lib.rs:57-400)                                                    *)

EmptyKeys == [i \in 1..Cap |-> NEW_KEY]

new_root ==
    [n |-> 0, keys |-> EmptyKeys, children |-> <<>>, aug_val |-> A_initial_value]

\* Variant: a node counts as minimal only below t-1 keys.
is_min_strict(self) == self.n < MIN_DEGREE - 1

is_min(self) == self.n < MIN_DEGREE

\* Variant: a node never counts as full.
is_full_never(self) == self.n > 2 * MIN_DEGREE - 1

is_full(self) == self.n = 2 * MIN_DEGREE - 1

is_leaf(self) == self.children = <<>>

\* &self.keys[..self.n] seen as a slice of pairs
LiveKeys(self) == [i \in 1..self.n |-> self.keys[i]]

\* self.children.iter().map(|n| &n.aug_val)
ChildAugs(children) == [i \in 1..Len(children) |-> children[i].aug_val]

Child(self, idx) == self.children[idx + 1]

\* slice::binary_search_by_key over the live prefix: [lo, hi) halving
RECURSIVE BinarySearch(_, _, _, _)
BinarySearch(slice, key, lo, hi) ==
    IF lo >= hi THEN [found |-> FALSE, idx |-> lo]
    ELSE LET mid == lo + ((hi - lo) \div 2)
             k == slice[mid + 1][1]
         IN  IF k = key THEN [found |-> TRUE, idx |-> mid]
             ELSE IF k < key THEN BinarySearch(slice, key, mid + 1, hi)
             ELSE BinarySearch(slice, key, lo, mid)

find_key_idx(self, key) == BinarySearch(LiveKeys(self), key, 0, self.n)

split(self) ==
    LET median == self.keys[MIN_DEGREE]
        keys == [i \in 1..Cap |->
                    IF i <= MIN_DEGREE - 1 THEN self.keys[MIN_DEGREE + i]
                                           ELSE NEW_KEY]
        lkeys == [i \in 1..Cap |->
                    IF i <= MIN_DEGREE - 1 THEN self.keys[i] ELSE NEW_KEY]
        children == IF is_leaf(self) THEN <<>>
                    ELSE SubSeq(self.children, MIN_DEGREE + 1, Len(self.children))
        lchildren == IF is_leaf(self) THEN <<>>
                     ELSE SubSeq(self.children, 1, MIN_DEGREE)
        augs == A_split(SubSeq(lkeys, 1, MIN_DEGREE - 1),
                        SubSeq(keys, 1, MIN_DEGREE - 1),
                        median, ChildAugs(lchildren), ChildAugs(children),
                        self.aug_val)
    IN  [median |-> median,
         left |-> [n |-> MIN_DEGREE - 1, keys |-> lkeys,
                   children |-> lchildren, aug_val |-> augs[1]],
         new_node |-> [n |-> MIN_DEGREE - 1, keys |-> keys,
                       children |-> children, aug_val |-> augs[2]]]

insert_pair(self, idx, pair) ==
    [self EXCEPT
        !.keys = [i \in 1..Cap |->
                    IF i = idx + 1 THEN pair
                    ELSE IF i > idx + 1 /\ i <= self.n + 1 THEN self.keys[i - 1]
                    ELSE self.keys[i]],
        !.n = self.n + 1]

\* Vec::insert(idx, x)
VecInsert(v, idx, x) == SubSeq(v, 1, idx) \o <<x>> \o SubSeq(v, idx + 1, Len(v))

\* Vec::remove(idx): the vector without element idx
VecRemove(v, idx) == SubSeq(v, 1, idx) \o SubSeq(v, idx + 2, Len(v))

insert_child(self, idx, child) ==
    [self EXCEPT !.children = VecInsert(self.children, idx, child)]

split_child_put(self, idx, s) ==
    insert_child(insert_pair([self EXCEPT !.children[idx + 1] = s.left],
                             idx, s.median),
                 idx + 1, s.new_node)

split_child(self, idx) == split_child_put(self, idx, split(Child(self, idx)))

RECURSIVE insert_non_full(_, _, _)
\* Variant: the summary is not lowered again when the child reports a
\* duplicate.
insert_non_full_unwind_keep(self, idx, key, value, r) ==
    [node |-> [self EXCEPT
                 !.aug_val = A_inserted_sub_tree(key, value, self.aug_val),
                 !.children[idx + 1] = r.node],
     ok |-> r.ok]

\* The tail of insert_non_full once the child has returned r: the summary
\* was raised before the call and is lowered again when the child reports a
\* duplicate.
insert_non_full_unwind(self, idx, key, value, r) ==
    LET s2 == [self EXCEPT
                 !.aug_val = A_inserted_sub_tree(key, value, self.aug_val),
                 !.children[idx + 1] = r.node]
    IN  IF r.ok THEN [node |-> s2, ok |-> TRUE]
        ELSE [node |-> [s2 EXCEPT !.aug_val =
                          A_deleted_sub_tree(key, value, s2.aug_val)],
              ok |-> FALSE]

insert_non_full_descend(self, idx, key, value) ==
    insert_non_full_unwind(self, idx, key, value,
                           insert_non_full(Child(self, idx), key, value))

\* Variant: the descent always continues left of the median.
insert_non_full_split_left(self, idx, key, value) ==
    LET split_key == self.keys[idx + 1][1]
    IN  IF key = split_key THEN [node |-> self, ok |-> FALSE]
        ELSE insert_non_full_descend(self, idx, key, value)

\* self is the node after split_child(idx): slot idx holds the median.
insert_non_full_split(self, idx, key, value) ==
    LET split_key == self.keys[idx + 1][1]
    IN  IF key = split_key THEN [node |-> self, ok |-> FALSE]
        ELSE insert_non_full_descend(self,
                                     IF key > split_key THEN idx + 1 ELSE idx,
                                     key, value)

\* Variant: a key that is found has its value replaced by the offered one.
insert_non_full_at_overwrite(self, key, value, f) ==
    IF f.found THEN [node |-> [self EXCEPT !.keys[f.idx + 1] = <<key, value>>],
                     ok |-> FALSE]
    ELSE IF is_leaf(self) THEN
        [node |-> insert_pair([self EXCEPT !.aug_val =
                                 A_inserted_sub_tree(key, value, self.aug_val)],
                              f.idx, <<key, value>>),
         ok |-> TRUE]
    ELSE IF is_full(Child(self, f.idx)) THEN
        insert_non_full_split(split_child(self, f.idx), f.idx, key, value)
    ELSE insert_non_full_descend(self, f.idx, key, value)

\* insert_non_full with f the outcome of find_key_idx
insert_non_full_at(self, key, value, f) ==
    IF f.found THEN [node |-> self, ok |-> FALSE]
    ELSE IF is_leaf(self) THEN
        [node |-> insert_pair([self EXCEPT !.aug_val =
                                 A_inserted_sub_tree(key, value, self.aug_val)],
                              f.idx, <<key, value>>),
         ok |-> TRUE]
    ELSE IF is_full(Child(self, f.idx)) THEN
        insert_non_full_split(split_child(self, f.idx), f.idx, key, value)
    ELSE insert_non_full_descend(self, f.idx, key, value)

insert_non_full(self, key, value) ==
    insert_non_full_at(self, key, value, find_key_idx(self, key))

\* Variant: the last live pair is dropped instead of the pair at idx.
remove_pair_last(self, idx) ==
    [pair |-> self.keys[idx + 1],
     node |-> [self EXCEPT !.keys[self.n] = NEW_KEY, !.n = self.n - 1]]

\* Variant: the slot vacated at the end keeps its old content.
remove_pair_stale(self, idx) ==
    [pair |-> self.keys[idx + 1],
     node |-> [self EXCEPT
                 !.keys = [i \in 1..Cap |->
                             IF i >= idx + 1 /\ i <= self.n - 1 THEN self.keys[i + 1]
                             ELSE self.keys[i]],
                 !.n = self.n - 1]]

remove_pair(self, idx) ==
    [pair |-> self.keys[idx + 1],
     node |-> [self EXCEPT
                 !.keys = [i \in 1..Cap |->
                             IF i >= idx + 1 /\ i <= self.n - 1 THEN self.keys[i + 1]
                             ELSE IF i = self.n THEN NEW_KEY
                             ELSE self.keys[i]],
                 !.n = self.n - 1]]

\* merge_children after its remove_pair: rp.pair is the parent pair, rp.node
\* the parent without it.
merge_children_into(rp, idx) ==
    LET parent_pair == rp.pair
        right_child == Child(rp.node, idx + 1)
        left0 == Child(rp.node, idx)
        left1 == [left0 EXCEPT
                    !.aug_val = A_merge(parent_pair, left0.aug_val, right_child.aug_val),
                    !.keys = [i \in 1..Cap |->
                                IF i = MIN_DEGREE THEN parent_pair
                                ELSE IF i > MIN_DEGREE
                                     THEN right_child.keys[i - MIN_DEGREE]
                                ELSE left0.keys[i]],
                    !.n = 2 * MIN_DEGREE - 1,
                    !.children = IF is_leaf(left0) THEN left0.children
                                 ELSE left0.children \o right_child.children]
    IN  [rp.node EXCEPT
            !.children = [VecRemove(rp.node.children, idx + 1) EXCEPT ![idx + 1] = left1]]

merge_children(self, idx) == merge_children_into(remove_pair(self, idx), idx)

\* A::steal as make_space calls it: victim is the sibling after remove_pair
\* and after giving up stolen_child.
steal_augs(parent_pair, sibling_pair, stolen_child, thief, victim) ==
    A_steal(parent_pair, sibling_pair,
            IF stolen_child = None THEN None ELSE Some(stolen_child[1].aug_val),
            thief.aug_val, victim.aug_val)

\* The left steal of make_space once the sibling pair is out (rp) and the
\* summaries are computed (augs).
steal_left_move(self, idx, rp, stolen_child, victim, augs) ==
    LET parent_pair == self.keys[idx]
        thief1 == insert_pair([Child(self, idx) EXCEPT !.aug_val = augs[1]],
                              0, parent_pair)
    IN  [self EXCEPT
            !.keys[idx] = rp.pair,
            !.children[idx] = [victim EXCEPT !.aug_val = augs[2]],
            !.children[idx + 1] =
                IF stolen_child = None THEN thief1
                ELSE [thief1 EXCEPT !.children =
                        VecInsert(thief1.children, 0, stolen_child[1])]]

steal_left_pop(self, idx, rp, stolen_child, victim) ==
    steal_left_move(self, idx, rp, stolen_child, victim,
                    steal_augs(self.keys[idx], rp.pair, stolen_child,
                               Child(self, idx), victim))

\* Variant: the victim keeps the child it hands over.
steal_left_from_keep_child(self, idx, rp) ==
    IF is_leaf(rp.node) THEN steal_left_pop(self, idx, rp, None, rp.node)
    ELSE steal_left_pop(self, idx, rp,
                        Some(rp.node.children[Len(rp.node.children)]),
                        rp.node)

steal_left_from(self, idx, rp) ==
    IF is_leaf(rp.node) THEN steal_left_pop(self, idx, rp, None, rp.node)
    ELSE steal_left_pop(self, idx, rp,
                        Some(rp.node.children[Len(rp.node.children)]),
                        [rp.node EXCEPT !.children =
                           SubSeq(rp.node.children, 1, Len(rp.node.children) - 1)])

\* steal a key from the left sibling (through parent)
steal_left(self, idx) ==
    steal_left_from(self, idx,
                    remove_pair(Child(self, idx - 1), Child(self, idx - 1).n - 1))

\* The right steal of make_space once the sibling pair is out (rp) and the
\* summaries are computed (augs).
steal_right_move(self, idx, rp, stolen_child, victim, augs) ==
    LET parent_pair == self.keys[idx + 1]
        thief1 == insert_pair([Child(self, idx) EXCEPT !.aug_val = augs[1]],
                              Child(self, idx).n, parent_pair)
    IN  [self EXCEPT
            !.keys[idx + 1] = rp.pair,
            !.children[idx + 1] =
                IF stolen_child = None THEN thief1
                ELSE [thief1 EXCEPT !.children =
                        Append(thief1.children, stolen_child[1])],
            !.children[idx + 2] = [victim EXCEPT !.aug_val = augs[2]]]

steal_right_pop(self, idx, rp, stolen_child, victim) ==
    steal_right_move(self, idx, rp, stolen_child, victim,
                     steal_augs(self.keys[idx + 1], rp.pair, stolen_child,
                                Child(self, idx), victim))

steal_right_from(self, idx, rp) ==
    IF is_leaf(rp.node) THEN steal_right_pop(self, idx, rp, None, rp.node)
    ELSE steal_right_pop(self, idx, rp, Some(rp.node.children[1]),
                         [rp.node EXCEPT !.children =
                            VecRemove(rp.node.children, 0)])

\* steal a key from the right sibling (through parent)
steal_right(self, idx) ==
    steal_right_from(self, idx, remove_pair(Child(self, idx + 1), 0))

\* Variant: nothing is moved.
make_space_noop(self, idx0) == [node |-> self, idx |-> idx0]

\* Variant: the right sibling is tried before the left one.
make_space_right_first(self, idx0) ==
    IF idx0 < self.n /\ ~is_min(Child(self, idx0 + 1)) THEN
        [node |-> steal_right(self, idx0), idx |-> idx0]
    ELSE IF idx0 > 0 /\ ~is_min(Child(self, idx0 - 1)) THEN
        [node |-> steal_left(self, idx0), idx |-> idx0]
    ELSE IF idx0 > 0 THEN
        [node |-> merge_children(self, idx0 - 1), idx |-> idx0 - 1]
    ELSE
        [node |-> merge_children(self, idx0), idx |-> idx0]

make_space(self, idx0) ==
    IF idx0 > 0 /\ ~is_min(Child(self, idx0 - 1)) THEN
        [node |-> steal_left(self, idx0), idx |-> idx0]
    ELSE IF idx0 < self.n /\ ~is_min(Child(self, idx0 + 1)) THEN
        [node |-> steal_right(self, idx0), idx |-> idx0]
    ELSE IF idx0 > 0 THEN
        \* merge with the left sibling
        [node |-> merge_children(self, idx0 - 1), idx |-> idx0 - 1]
    ELSE
        \* merge with the right sibling
        [node |-> merge_children(self, idx0), idx |-> idx0]

\* The leaf arm of delete_max and delete_min after its remove_pair.
delete_leaf_pair(rp) ==
    [pair |-> rp.pair,
     node |-> [rp.node EXCEPT !.aug_val =
                 A_deleted_sub_tree(rp.pair[1], rp.pair[2], rp.node.aug_val)]]

\* The tail of delete_max and delete_min once child idx has returned r.
delete_extreme_up(self, idx, r) ==
    [pair |-> r.pair,
     node |-> [self EXCEPT
                 !.children[idx + 1] = r.node,
                 !.aug_val = A_deleted_sub_tree(r.pair[1], r.pair[2], self.aug_val)]]

RECURSIVE delete_max(_)
delete_max_descend(self) ==
    delete_extreme_up(self, self.n, delete_max(Child(self, self.n)))

delete_max(self) ==
    IF is_leaf(self) THEN delete_leaf_pair(remove_pair(self, self.n - 1))
    ELSE delete_max_descend(IF is_min(Child(self, self.n))
                            THEN make_space(self, self.n).node ELSE self)

RECURSIVE delete_min(_)
delete_min_descend(self) ==
    delete_extreme_up(self, 0, delete_min(Child(self, 0)))

delete_min(self) ==
    IF is_leaf(self) THEN delete_leaf_pair(remove_pair(self, 0))
    ELSE delete_min_descend(IF is_min(Child(self, 0))
                            THEN make_space(self, 0).node ELSE self)

\* Variant: the node's own summary is not updated after the removal.
delete_own_finish_keep_summary(key, value, node) ==
    [value |-> value, node |-> node]

\* The tail of delete_own: the summary update and the returned value.
delete_own_finish(key, value, node) ==
    [value |-> value,
     node |-> [node EXCEPT !.aug_val =
                 A_deleted_sub_tree(key, value, node.aug_val)]]

\* Variant: the pair at idx stays; child cidx still gives up d.pair.
delete_own_replace_keep(self, key, idx, cidx, d) ==
    delete_own_finish(key, self.keys[idx + 1][2],
                      [self EXCEPT !.children[cidx + 1] = d.node])

\* The pair at idx is replaced by d.pair, which child cidx gave up.
delete_own_replace(self, key, idx, cidx, d) ==
    delete_own_finish(key, self.keys[idx + 1][2],
                      [self EXCEPT !.keys[idx + 1] = d.pair,
                                   !.children[cidx + 1] = d.node])

delete_own_put(m, key, idx, d) ==
    delete_own_finish(key, d.value, [m EXCEPT !.children[idx + 1] = d.node])

RECURSIVE delete_own(_, _, _)
\* m is the node after merge_children(idx)
delete_own_merged(m, key, idx) ==
    delete_own_put(m, key, idx, delete_own(Child(m, idx), key, MIN_DEGREE - 1))

delete_own_leaf(key, rp) == delete_own_finish(key, rp.pair[2], rp.node)

delete_own(self, key, idx) ==
    IF is_leaf(self) THEN delete_own_leaf(key, remove_pair(self, idx))
    ELSE IF ~is_min(Child(self, idx)) THEN
        delete_own_replace(self, key, idx, idx, delete_max(Child(self, idx)))
    ELSE IF ~is_min(Child(self, idx + 1)) THEN
        delete_own_replace(self, key, idx, idx + 1,
                           delete_min(Child(self, idx + 1)))
    ELSE delete_own_merged(merge_children(self, idx), key, idx)

\* Node::delete and Node::delete_in_decendant also report `entered`: for a
\* call that returns None, every node the call descended through: the node
\* as it was before the call, as it is after the call, and whether
\* make_space was applied to it before it was entered.
RECURSIVE delete(_, _)
\* The tail of delete_in_decendant once the child has returned r; ms is the
\* node and the index after the optional make_space.
delete_in_decendant_up(self, idx0, key, ms, r) ==
    LET s2 == [ms.node EXCEPT !.children[ms.idx + 1] = r.node]
        s3 == IF r.ret # None
              THEN [s2 EXCEPT !.aug_val =
                      A_deleted_sub_tree(key, r.ret[1], s2.aug_val)]
              ELSE s2
    IN  [node |-> s3, ret |-> r.ret,
         entered |->
            IF r.ret # None THEN <<>>
            ELSE <<[before |-> self, after |-> s3, made_space |-> FALSE],
                   [before |-> Child(self, ms.idx),
                    after |-> r.entered[1].after,
                    made_space |-> is_min(Child(self, idx0))]>>
                 \o Tail(r.entered)]

delete_in_decendant_descend(self, idx0, key, ms) ==
    delete_in_decendant_up(self, idx0, key, ms,
                           delete(Child(ms.node, ms.idx), key))

delete_in_decendant(self, idx0, key) ==
    IF is_leaf(self)
    THEN [node |-> self, ret |-> None,
          entered |-> <<[before |-> self, after |-> self, made_space |-> FALSE]>>]
    ELSE delete_in_decendant_descend(self, idx0, key,
             IF is_min(Child(self, idx0)) THEN make_space(self, idx0)
             ELSE [node |-> self, idx |-> idx0])

delete_found(d) == [node |-> d.node, ret |-> Some(d.value), entered |-> <<>>]

\* delete with f the outcome of find_key_idx
delete_at(self, key, f) ==
    IF f.found THEN delete_found(delete_own(self, key, f.idx))
    ELSE delete_in_decendant(self, f.idx, key)

delete(self, key) == delete_at(self, key, find_key_idx(self, key))

RECURSIVE search(_, _, _)
\* search with f the outcome of find_key_idx and acc the outcome of A::visit
search_visited(self, key, f, acc) ==
    IF f.found THEN [ret |-> Some(self.keys[f.idx + 1][2]), acc |-> acc]
    ELSE IF is_leaf(self) THEN [ret |-> None, acc |-> acc]
    ELSE search(Child(self, f.idx), key, acc)

search_at(self, key, acc0, f) ==
    search_visited(self, key, f,
                   A_visit(f.found, f.idx, LiveKeys(self),
                           ChildAugs(self.children), self.aug_val, acc0))

search(self, key, acc0) == search_at(self, key, acc0, find_key_idx(self, key))

-----------------------------------------------------------------------------
(* BTree (lib.rs:429-480)                                                  *)

\* Variant: the split root is put two levels above its halves.
BTree_split_root_tall(s) ==
    [n |-> 0,
     keys |-> EmptyKeys,
     children |-> <<[n |-> 1,
                     keys |-> [EmptyKeys EXCEPT ![1] = s.median],
                     children |-> <<s.left, s.new_node>>,
                     aug_val |-> A_split_root(s.median, s.left.aug_val,
                                              s.new_node.aug_val)]>>,
     aug_val |-> A_split_root(s.median, s.left.aug_val, s.new_node.aug_val)]

\* The root that replaces a full root: s is what split returned for it.
BTree_split_root(s) ==
    [n |-> 1,
     keys |-> [EmptyKeys EXCEPT ![1] = s.median],
     children |-> <<s.left, s.new_node>>,
     aug_val |-> A_split_root(s.median, s.left.aug_val, s.new_node.aug_val)]

\* Variant: the result of insert_non_full is reported inverted.
BTree_insert_result_is_err(r) == [root |-> r.node, ret |-> ~r.ok]

\* .is_ok() of what insert_non_full returned
BTree_insert_result(r) == [root |-> r.node, ret |-> r.ok]

BTree_insert(root, key, value) ==
    BTree_insert_result(
        insert_non_full(IF is_full(root) THEN BTree_split_root(split(root))
                        ELSE root,
                        key, value))

\* Variant: an internal root is always replaced by its first child.
BTree_delete_shrink_eager(res) ==
    [root |-> IF Len(res.node.children) >= 1 THEN res.node.children[1]
              ELSE res.node,
     ret |-> res.ret, entered |-> res.entered]

\* Variant: the root is never replaced.
BTree_delete_shrink_never(res) ==
    [root |-> res.node, ret |-> res.ret, entered |-> res.entered]

\* The root shrinks onto its only child.
BTree_delete_shrink(res) ==
    [root |-> IF Len(res.node.children) = 1 THEN res.node.children[1]
              ELSE res.node,
     ret |-> res.ret, entered |-> res.entered]

BTree_delete(root, key) == BTree_delete_shrink(delete(root, key))

BTree_search(root, key) == search(root, key, A_initial_output).ret

BTree_augment_search(root, key) == search(root, key, A_initial_output).acc

-----------------------------------------------------------------------------
(* The program as a state machine: one BTree<K, V, SumAugment> driven by   *)
(* its public operations.  insert and delete are the transitions; search   *)
(* and augment_search take &self and are applied to every reachable tree.  *)
(*                                                                         *)
(* `live` is the reference map: what a map with unique keys holds after    *)
(* the same calls (an insert of a key that is in the map is a no-op).      *)
(* `last` records the last call and what it returned.  `dropped` is None   *)
(* while the tree is owned and Some(what the drop released) afterwards.    *)

VARIABLES root, live, last, dropped

vars == <<root, live, last, dropped>>

LiveInsert(m, k, v) ==
    IF k \in DOMAIN m THEN m
    ELSE [x \in DOMAIN m \cup {k} |-> IF x = k THEN v ELSE m[x]]

LiveDelete(m, k) == [x \in DOMAIN m \ {k} |-> m[x]]

\* The keys a caller may insert afresh with the alternative value: AltKeys
\* keys from the middle of the key range.
AltKeySet == {k \in KeySet : k > MaxKey \div 2 /\ k <= (MaxKey \div 2) + AltKeys}

\* The values a caller offers with key k: the canonical one; the other one
\* when k is already in the map (a duplicate with a different value) or k
\* is one of the AltKeySet.
InsertValues(k) ==
    {Canon(k)} \cup (IF k \in AltKeySet \/ k \in DOMAIN live THEN {Alt(k)} ELSE {})

\* Drop glue of Node: `keys` is an array of MaybeUninit, which drops nothing;
\* `children` is a Vec<Node>, which drops every child; no Drop impl exists.
RECURSIVE DropChildren(_)
DropNode(self) ==
    LET c == DropChildren(self.children)
    IN  [nodes |-> 1 + c.nodes, pairs |-> c.pairs]

DropChildren(children) ==
    IF children = <<>> THEN [nodes |-> 0, pairs |-> <<>>]
    ELSE LET h == DropNode(children[1])
             t == DropChildren(Tail(children))
         IN  [nodes |-> h.nodes + t.nodes, pairs |-> h.pairs \o t.pairs]

Init ==
    /\ root = new_root
    /\ live = <<>>
    /\ last = [op |-> "new"]
    /\ dropped = None

\* The state after an insert of (k, v) that returned r.
Inserted(k, v, r) ==
    /\ root' = r.root
    /\ last' = [op |-> "insert", ret |-> r.ret, changed |-> r.root # root,
                differs |-> k \in DOMAIN live /\ live[k] # v]
    /\ live' = LiveInsert(live, k, v)
    /\ UNCHANGED dropped

Insert(k, v) ==
    /\ dropped = None
    /\ Inserted(k, v, BTree_insert(root, k, v))

\* The state after a delete of k that returned r.
Deleted(k, r) ==
    /\ root' = r.root
    /\ last' = [op |-> "delete", ret |-> r.ret, changed |-> r.root # root,
                moved |-> \E i \in 1..Len(r.entered) :
                             r.entered[i].after.aug_val
                                # r.entered[i].before.aug_val]
    /\ live' = LiveDelete(live, k)
    /\ UNCHANGED dropped

Delete(k) ==
    /\ dropped = None
    /\ Deleted(k, BTree_delete(root, k))

Drop ==
    /\ dropped = None
    /\ dropped' = Some(DropNode(root))
    /\ last' = [op |-> "drop"]
    /\ UNCHANGED <<root, live>>

Next ==
    \/ \E k \in KeySet : \E v \in InsertValues(k) : Insert(k, v)
    \/ \E k \in KeySet : Delete(k)
    \/ Drop

Spec == Init /\ [][Next]_vars

-----------------------------------------------------------------------------
(* The calls a public operation makes.  Each calls_* operator follows the  *)
(* control flow of the function of the same name and lists, in call order, *)
(* the calls made: the function, the node it is called on as it is at that *)
(* moment, its index argument, the depth of the node below the root, and   *)
(* the contents of the key slots the function reads as pairs               *)
(* (assume_init_read, assume_init_ref, or a transmute to a slice of pairs).*)

\* Slot i (0-based) of the key array; an index past the array holds no pair.
SlotAt(self, i) == IF i + 1 \in 1..Cap THEN self.keys[i + 1] ELSE NEW_KEY

Call(fn, self, idx, depth, slots) ==
    [fn |-> fn, self |-> self, idx |-> idx, depth |-> depth,
     read |-> {SlotAt(self, i) : i \in slots}]

\* binary_search_by_key over &self.keys[..self.n]
calls_find_key_idx(self, depth) ==
    <<Call("find_key_idx", self, 0, depth, 0..(self.n - 1))>>

\* reads keys[i - 1] for i in idx+1 ..= n
calls_insert_pair(self, idx, depth) ==
    <<Call("insert_pair", self, idx, depth, idx..(self.n - 1))>>

\* reads keys[idx], then keys[i + 1] for i in idx .. n-1
calls_remove_pair(self, idx, depth) ==
    <<Call("remove_pair", self, idx, depth, {idx} \cup ((idx + 1)..(self.n - 1)))>>

\* reads the median and hands both halves to A::split as slices of pairs
calls_split(self, depth) ==
    <<Call("split", self, 0, depth, 0..(2 * MIN_DEGREE - 2))>>

calls_split_child(self, idx, depth) ==
    <<Call("split_child", self, idx, depth, {})>>
    \o calls_split(Child(self, idx), depth + 1)
    \o calls_insert_pair([self EXCEPT !.children[idx + 1] =
                            split(Child(self, idx)).left], idx, depth)

\* remove_pair on the parent, then the first t-1 slots of the right child
calls_merge_children(self, idx, depth) ==
    <<Call("merge_children", self, idx, depth, {})>>
    \o calls_remove_pair(self, idx, depth)
    \o (IF idx + 2 <= Len(self.children)
        THEN <<Call("merge_children.right_child", Child(self, idx + 1), 0,
                    depth + 1, 0..(MIN_DEGREE - 2))>>
        ELSE <<>>)

calls_make_space(self, idx, depth) ==
    IF idx > 0 /\ ~is_min(Child(self, idx - 1)) THEN
        <<Call("make_space", self, idx, depth, {idx - 1})>>
        \o calls_remove_pair(Child(self, idx - 1), Child(self, idx - 1).n - 1,
                             depth + 1)
        \o calls_insert_pair(Child(self, idx), 0, depth + 1)
    ELSE IF idx < self.n /\ ~is_min(Child(self, idx + 1)) THEN
        <<Call("make_space", self, idx, depth, {idx})>>
        \o calls_remove_pair(Child(self, idx + 1), 0, depth + 1)
        \o calls_insert_pair(Child(self, idx), Child(self, idx).n, depth + 1)
    ELSE IF idx > 0 THEN
        <<Call("make_space", self, idx, depth, {})>>
        \o calls_merge_children(self, idx - 1, depth)
    ELSE
        <<Call("make_space", self, idx, depth, {})>>
        \o calls_merge_children(self, idx, depth)

RECURSIVE calls_delete_max(_, _)
calls_delete_max(self, depth) ==
    <<Call("delete_max", self, 0, depth, {})>>
    \o IF is_leaf(self) THEN calls_remove_pair(self, self.n - 1, depth)
       ELSE LET need == is_min(Child(self, self.n))
                s1 == IF need THEN make_space(self, self.n).node ELSE self
            IN  (IF need THEN calls_make_space(self, self.n, depth) ELSE <<>>)
                \o calls_delete_max(Child(s1, s1.n), depth + 1)

RECURSIVE calls_delete_min(_, _)
calls_delete_min(self, depth) ==
    <<Call("delete_min", self, 0, depth, {})>>
    \o IF is_leaf(self) THEN calls_remove_pair(self, 0, depth)
       ELSE LET need == is_min(Child(self, 0))
                s1 == IF need THEN make_space(self, 0).node ELSE self
            IN  (IF need THEN calls_make_space(self, 0, depth) ELSE <<>>)
                \o calls_delete_min(Child(s1, 0), depth + 1)

RECURSIVE calls_delete_own(_, _, _, _)
calls_delete_own(self, key, idx, depth) ==
    IF is_leaf(self) THEN
        <<Call("delete_own", self, idx, depth, {})>>
        \o calls_remove_pair(self, idx, depth)
    ELSE IF ~is_min(Child(self, idx)) THEN
        <<Call("delete_own", self, idx, depth, {idx})>>
        \o calls_delete_max(Child(self, idx), depth + 1)
    ELSE IF ~is_min(Child(self, idx + 1)) THEN
        <<Call("delete_own", self, idx, depth, {idx})>>
        \o calls_delete_min(Child(self, idx + 1), depth + 1)
    ELSE
        <<Call("delete_own", self, idx, depth, {})>>
        \o calls_merge_children(self, idx, depth)
        \o calls_delete_own(Child(merge_children(self, idx), idx), key,
                            MIN_DEGREE - 1, depth + 1)

RECURSIVE calls_delete(_, _, _)
calls_delete_in_decendant(self, idx0, key, depth) ==
    IF is_leaf(self) THEN <<>>
    ELSE LET need == is_min(Child(self, idx0))
             ms == IF need THEN make_space(self, idx0)
                   ELSE [node |-> self, idx |-> idx0]
         IN  (IF need THEN calls_make_space(self, idx0, depth) ELSE <<>>)
             \o calls_delete(Child(ms.node, ms.idx), key, depth + 1)

calls_delete(self, key, depth) ==
    LET f == find_key_idx(self, key) IN
    <<Call("delete", self, 0, depth, {})>>
    \o calls_find_key_idx(self, depth)
    \o IF f.found THEN calls_delete_own(self, key, f.idx, depth)
       ELSE calls_delete_in_decendant(self, f.idx, key, depth)

calls_BTree_delete(tree, key) == calls_delete(tree, key, 0)

RECURSIVE calls_insert_non_full(_, _, _, _)
calls_insert_non_full(self, key, value, depth) ==
    LET f == find_key_idx(self, key) IN
    <<Call("insert_non_full", self, 0, depth, {})>>
    \o calls_find_key_idx(self, depth)
    \o IF f.found THEN <<>>
       ELSE IF is_leaf(self) THEN calls_insert_pair(self, f.idx, depth)
       ELSE IF is_full(Child(self, f.idx)) THEN
           LET s1 == split_child(self, f.idx)
               split_key == s1.keys[f.idx + 1][1]
           IN  calls_split_child(self, f.idx, depth)
               \o <<Call("insert_non_full.split_key", s1, f.idx, depth, {f.idx})>>
               \o IF key = split_key THEN <<>>
                  ELSE calls_insert_non_full(
                           Child(s1, IF key > split_key THEN f.idx + 1 ELSE f.idx),
                           key, value, depth + 1)
       ELSE calls_insert_non_full(Child(self, f.idx), key, value, depth + 1)

calls_BTree_insert(tree, key, value) ==
    IF is_full(tree)
    THEN calls_split(tree, 0)
         \o calls_insert_non_full(BTree_split_root(split(tree)), key, value, 0)
    ELSE calls_insert_non_full(tree, key, value, 0)

RECURSIVE calls_search(_, _, _)
\* &self.keys[..self.n] is handed to A::visit as a slice of pairs; search
\* then reads keys[idx] when found.
calls_search(self, key, depth) ==
    LET f == find_key_idx(self, key) IN
    calls_find_key_idx(self, depth)
    \o <<Call("search", self, f.idx, depth,
              (0..(self.n - 1)) \cup (IF f.found THEN {f.idx} ELSE {}))>>
    \o IF f.found \/ is_leaf(self) THEN <<>>
       ELSE calls_search(Child(self, f.idx), key, depth + 1)

\* The augmentation events of an insert, in the order they happen: which
\* of inserted_sub_tree / deleted_sub_tree is applied, to the node at which
\* depth of the descent, with which key and value.
AugEvent(ev, depth, key, value) ==
    [ev |-> ev, depth |-> depth, key |-> key, value |-> value]

RECURSIVE events_insert_non_full(_, _, _, _)
\* The events of the internal arm once the child to descend into is known.
events_insert_non_full_descend(self, idx, key, value, depth) ==
    <<AugEvent("inserted_sub_tree", depth, key, value)>>
    \o events_insert_non_full(Child(self, idx), key, value, depth + 1)
    \o (IF insert_non_full(Child(self, idx), key, value).ok THEN <<>>
        ELSE <<AugEvent("deleted_sub_tree", depth, key, value)>>)

events_insert_non_full(self, key, value, depth) ==
    LET f == find_key_idx(self, key) IN
    IF f.found THEN <<>>
    ELSE IF is_leaf(self) THEN <<AugEvent("inserted_sub_tree", depth, key, value)>>
    ELSE IF is_full(Child(self, f.idx)) THEN
        LET s1 == split_child(self, f.idx)
            split_key == s1.keys[f.idx + 1][1]
        IN  IF key = split_key THEN <<>>
            ELSE events_insert_non_full_descend(
                     s1, IF key > split_key THEN f.idx + 1 ELSE f.idx,
                     key, value, depth)
    ELSE events_insert_non_full_descend(self, f.idx, key, value, depth)

events_BTree_insert(tree, key, value) ==
    events_insert_non_full(IF is_full(tree) THEN BTree_split_root(split(tree))
                           ELSE tree,
                           key, value, 0)

\* The integers SumAugment computes during an insert, in the order they are
\* computed: every result of `+` and `-` in augments.rs, taken as the
\* mathematical value.
RECURSIVE RunningSums(_, _)
\* acc = &acc + x for each x of xs: the value of acc after each addition
RunningSums(acc, xs) ==
    IF xs = <<>> THEN <<>>
    ELSE <<acc + xs[1]>> \o RunningSums(acc + xs[1], Tail(xs))

\* SumAugment::split: left after each addition, old - median, then - left
sums_A_split(left_keys, median, left_children, old) ==
    LET adds == [i \in 1..Len(left_keys) |-> left_keys[i][2]] \o left_children
        left == SumVals(left_keys) + SumSeq(left_children)
    IN  RunningSums(0, adds) \o <<old - median[2], (old - median[2]) - left>>

\* Node::split calls A::split with the left half, the median and the
\* summaries of the children that stay.
sums_split(self) ==
    sums_A_split(SubSeq(self.keys, 1, MIN_DEGREE - 1), self.keys[MIN_DEGREE],
                 IF is_leaf(self) THEN <<>>
                 ELSE ChildAugs(SubSeq(self.children, 1, MIN_DEGREE)),
                 self.aug_val)

\* SumAugment::split_root: root_value + left, then + right
sums_A_split_root(root_pair, left, right) ==
    <<root_pair[2] + left, (root_pair[2] + left) + right>>

RECURSIVE sums_insert_non_full(_, _, _)
sums_insert_non_full_descend(self, idx, key, value) ==
    <<A_inserted_sub_tree(key, value, self.aug_val)>>
    \o sums_insert_non_full(Child(self, idx), key, value)
    \o (IF insert_non_full(Child(self, idx), key, value).ok THEN <<>>
        ELSE <<A_deleted_sub_tree(key, value,
                   A_inserted_sub_tree(key, value, self.aug_val))>>)

sums_insert_non_full(self, key, value) ==
    LET f == find_key_idx(self, key) IN
    IF f.found THEN <<>>
    ELSE IF is_leaf(self) THEN <<A_inserted_sub_tree(key, value, self.aug_val)>>
    ELSE IF is_full(Child(self, f.idx)) THEN
        LET s1 == split_child(self, f.idx)
            split_key == s1.keys[f.idx + 1][1]
        IN  sums_split(Child(self, f.idx))
            \o (IF key = split_key THEN <<>>
                ELSE sums_insert_non_full_descend(
                         s1, IF key > split_key THEN f.idx + 1 ELSE f.idx,
                         key, value))
    ELSE sums_insert_non_full_descend(self, f.idx, key, value)

sums_BTree_insert(tree, key, value) ==
    IF is_full(tree)
    THEN sums_split(tree)
         \o sums_A_split_root(split(tree).median, split(tree).left.aug_val,
                              split(tree).new_node.aug_val)
         \o sums_insert_non_full(BTree_split_root(split(tree)), key, value)
    ELSE sums_insert_non_full(tree, key, value)

-----------------------------------------------------------------------------
(* What a whole-tree walk observes.                                        *)

\* The pairs of a subtree in key order: child 0, key 0, child 1, key 1, ...
RECURSIVE InOrder(_)
RECURSIVE InOrderFrom(_, _)
InOrderFrom(self, i) ==
    IF i > self.n
    THEN IF is_leaf(self) THEN <<>> ELSE InOrder(self.children[i])
    ELSE (IF is_leaf(self) THEN <<>> ELSE InOrder(self.children[i]))
         \o <<self.keys[i]>> \o InOrderFrom(self, i + 1)

InOrder(self) == InOrderFrom(self, 1)

\* The fold of SumAugment over a subtree, recomputed from scratch.
Fold(self) == SumVals(InOrder(self))

RECURSIVE Height(_)
Height(self) == IF is_leaf(self) THEN 1 ELSE 1 + Height(self.children[1])

RECURSIVE NodeCount(_)
RECURSIVE NodeCountAll(_)
NodeCountAll(children) ==
    IF children = <<>> THEN 0
    ELSE NodeCount(children[1]) + NodeCountAll(Tail(children))

NodeCount(self) == 1 + NodeCountAll(self.children)

\* The pairs of the reference map in key order.
RECURSIVE LivePairsFrom(_, _)
LivePairsFrom(m, k) ==
    IF k > MaxKey THEN <<>>
    ELSE (IF k \in DOMAIN m THEN << <<k, m[k]>> >> ELSE <<>>)
         \o LivePairsFrom(m, k + 1)

LivePairs(m) == LivePairsFrom(m, 1)

\* Sum of the values of the live pairs whose key is at most q.
RECURSIVE LiveSumUpTo(_, _)
LiveSumUpTo(m, q) ==
    IF q < 1 THEN 0
    ELSE (IF q \in DOMAIN m THEN m[q] ELSE 0) + LiveSumUpTo(m, q - 1)

Expected(m, k) == IF k \in DOMAIN m THEN Some(m[k]) ELSE None

\* k is stored in an internal node of the tree
RECURSIVE InInternal(_, _)
InInternal(self, k) ==
    LET f == find_key_idx(self, k) IN
    /\ ~is_leaf(self)
    /\ \/ f.found
       \/ InInternal(Child(self, f.idx), k)

-----------------------------------------------------------------------------
(* C1: search soundness.  After any sequence of insert and delete calls,   *)
(* for every key k, search(k) is Some(v) exactly when (k, v) is the pair   *)
(* the reference map holds for k (the last pair inserted for k that has    *)
(* not been deleted; a refused duplicate inserts nothing), and None when   *)
(* the map holds no pair for k.                                            *)
C1_SearchSound ==
    dropped = None =>
    \A k \in QuerySet : BTree_search(root, k) = Expected(live, k)

\* A duplicate with a different value has just been refused in a tree of
\* height 3 that holds alternative values and has lost keys.
C1_Witness ==
    /\ last.op = "insert" /\ ~last.ret /\ last.differs
    /\ Height(root) = 3
    /\ \E k \in DOMAIN live :
          live[k] = Alt(k) /\ BTree_search(root, k) = Some(Alt(k))
    /\ \E k \in KeySet : k \notin DOMAIN live /\ BTree_search(root, k) = None

(* C2: insert(k, v) returns true exactly when k was not in the map before  *)
(* the call; an insert that returns false leaves the key set and the value *)
(* stored for k as they were.                                              *)
C2_InsertResult ==
    dropped = None =>
    \A k \in KeySet : \A v \in InsertValues(k) :
        LET r == BTree_insert(root, k, v) IN
        /\ r.ret = (k \notin DOMAIN live)
        /\ ~r.ret =>
              /\ InOrder(r.root) = InOrder(root)
              /\ BTree_search(r.root, k) = BTree_search(root, k)
              /\ BTree_search(r.root, k) = Some(live[k])

\* A refused insert that offered another value than the stored one, with
\* the key sitting in an internal node.
C2_Witness ==
    /\ last.op = "insert" /\ ~last.ret /\ last.differs
    /\ \E k \in DOMAIN live : InInternal(root, k)
    /\ Len(InOrder(root)) >= MaxKey - 1

(* C3: delete(k) returns Some(v) exactly when k was in the map with value  *)
(* v before the call and None otherwise; after a successful delete,        *)
(* search(k) is None and every other key searches as before.               *)
C3_DeleteResult ==
    dropped = None =>
    \A k \in KeySet :
        LET r == BTree_delete(root, k) IN
        /\ r.ret = Expected(live, k)
        /\ r.ret # None =>
              /\ BTree_search(r.root, k) = None
              /\ \A k2 \in QuerySet \ {k} :
                    BTree_search(r.root, k2) = BTree_search(root, k2)

\* A successful delete that restructured a tree and left a tree of height 3.
C3_Witness ==
    /\ last.op = "delete" /\ last.ret # None
    /\ Height(root) = 3
    /\ Len(InOrder(root)) < MaxKey

(* C4: with SumAugment, for every query key k (present or absent, in a     *)
(* leaf or in an internal node), augment_search(k) is the sum of the       *)
(* values of the live pairs whose key is <= k; on an empty tree it is      *)
(* initial_output().                                                       *)
C4_AugmentSearch ==
    dropped = None =>
    /\ \A k \in QuerySet : BTree_augment_search(root, k) = LiveSumUpTo(live, k)
    /\ live = <<>> => \A k \in QuerySet :
                         BTree_augment_search(root, k) = A_initial_output

\* After a delete, a tree of height 3 where a present key sits in an
\* internal node and the query answers differ between keys.
C4_Witness ==
    /\ last.op = "delete" /\ last.ret # None
    /\ Height(root) = 3
    /\ \E k \in DOMAIN live :
          /\ InInternal(root, k)
          /\ BTree_augment_search(root, k) > live[k]
          /\ BTree_augment_search(root, k) < BTree_augment_search(root, MaxKey + 1)

-----------------------------------------------------------------------------
\* Every aug_val of the subtree is the fold over its subtree.
RECURSIVE AugOK(_)
AugOK(self) ==
    /\ self.aug_val = Fold(self)
    /\ \A i \in 1..Len(self.children) : AugOK(self.children[i])

\* Some child that a search for k descends into, before k is found, is full.
RECURSIVE FullBelow(_, _)
FullBelow(self, k) ==
    LET f == find_key_idx(self, k) IN
    /\ ~f.found
    /\ ~is_leaf(self)
    /\ \/ is_full(Child(self, f.idx))
       \/ FullBelow(Child(self, f.idx), k)

\* The root or a node on the search path down to the node holding k is full.
FullOnPath(tree, k) == is_full(tree) \/ FullBelow(tree, k)

\* Some child that a search for k descends into holds fewer than t keys.
RECURSIVE MinOnPath(_, _)
MinOnPath(self, k) ==
    LET f == find_key_idx(self, k) IN
    /\ ~f.found
    /\ ~is_leaf(self)
    /\ \/ is_min(Child(self, f.idx))
       \/ MinOnPath(Child(self, f.idx), k)

(* C5 as stated: for any key k already present, insert(k, v') returns      *)
(* false and leaves the tree unchanged: the same nodes with the same keys, *)
(* values, child layout, height and aug_val in every node.                 *)
C5_DuplicateLeavesTree ==
    dropped = None =>
    \A k \in DOMAIN live : \A v \in InsertValues(k) :
        LET r == BTree_insert(root, k, v) IN
        /\ ~r.ret
        /\ r.root = root

(* C5 amended: for any key k already present, insert(k, v') returns false  *)
(* and leaves the map unchanged (the same pairs in the same order, every   *)
(* aug_val the fold over its subtree).  The nodes themselves are unchanged *)
(* exactly when neither the root nor a node on the search path to k is     *)
(* full; a full one is split before the duplicate is detected, and the     *)
(* height grows by one exactly when the root was full.                     *)
C5_DuplicateLeavesMap ==
    dropped = None =>
    \A k \in DOMAIN live : \A v \in InsertValues(k) :
        LET r == BTree_insert(root, k, v) IN
        /\ ~r.ret
        /\ InOrder(r.root) = InOrder(root)
        /\ AugOK(r.root)
        /\ (r.root = root) <=> ~FullOnPath(root, k)
        /\ Height(r.root) = Height(root) + (IF is_full(root) THEN 1 ELSE 0)

\* A refused insert has just split nodes of the tree, and in the state it
\* left another duplicate would change nothing.
C5_Witness ==
    /\ last.op = "insert" /\ ~last.ret /\ last.changed
    /\ \E k \in DOMAIN live : ~FullOnPath(root, k) /\ ~is_leaf(root)

(* C6 as stated: for any key k that is not present, delete(k) returns None *)
(* and leaves the tree unchanged: the same node structure, keys, values,   *)
(* height and summaries.                                                   *)
C6_AbsentLeavesTree ==
    dropped = None =>
    \A k \in KeySet \ DOMAIN live :
        LET r == BTree_delete(root, k) IN
        /\ r.ret = None
        /\ r.root = root

(* C6 amended: for any key k that is not present, delete(k) returns None   *)
(* and leaves the map unchanged (the same pairs in the same order, every   *)
(* aug_val the fold over its subtree).  The nodes themselves are unchanged *)
(* exactly when no child on the search path for k holds fewer than t keys; *)
(* such a child is enlarged by make_space (a steal or a merge, and a root  *)
(* left without keys is replaced by its child) before absence is seen.     *)
C6_AbsentLeavesMap ==
    dropped = None =>
    \A k \in KeySet \ DOMAIN live :
        LET r == BTree_delete(root, k) IN
        /\ r.ret = None
        /\ InOrder(r.root) = InOrder(root)
        /\ AugOK(r.root)
        /\ (r.root = root) <=> ~MinOnPath(root, k)
        /\ Height(r.root) <= Height(root)

\* A delete of an absent key has just restructured the tree, right after
\* which the same delete would change nothing.
C6_Witness ==
    /\ last.op = "delete" /\ last.ret = None /\ last.changed
    /\ Height(root) >= 2
    /\ \E k \in KeySet \ DOMAIN live : ~MinOnPath(root, k)

(* C7 as stated: when delete(k) returns None, every node the delete        *)
(* descended through has the same aug_val after the call as before it.     *)
C7_AbsentPathSummaries ==
    dropped = None =>
    \A k \in KeySet \ DOMAIN live :
        LET r == BTree_delete(root, k) IN
        \A i \in 1..Len(r.entered) :
            r.entered[i].after.aug_val = r.entered[i].before.aug_val

(* C7 amended: when delete(k) returns None, every node the delete          *)
(* descended through has the same aug_val after the call as before it,     *)
(* except a child that make_space enlarged (by a steal or a merge) before  *)
(* the descent entered it; the aug_val of such a child changes by exactly  *)
(* the values of the pairs that moved into or out of its subtree.          *)
C7_AbsentPathSummariesFolded ==
    dropped = None =>
    \A k \in KeySet \ DOMAIN live :
        LET r == BTree_delete(root, k) IN
        /\ r.ret = None
        /\ Len(r.entered) >= 1
        /\ \A i \in 1..Len(r.entered) :
              LET e == r.entered[i] IN
              /\ ~e.made_space => e.after.aug_val = e.before.aug_val
              /\ e.after.aug_val - e.before.aug_val = Fold(e.after) - Fold(e.before)

\* A delete of an absent key has just changed a summary on its path and
\* left a tree of height 3; from there another absent delete would move a
\* pair and a child into an internal node on its path.
C7_Witness ==
    /\ last.op = "delete" /\ last.ret = None /\ last.moved
    /\ Height(root) = 3
    /\ \E k \in KeySet \ DOMAIN live :
          LET r == BTree_delete(root, k) IN
          \E i \in 1..Len(r.entered) :
              /\ r.entered[i].made_space
              /\ r.entered[i].after.aug_val > r.entered[i].before.aug_val
              /\ ~is_leaf(r.entered[i].after)

(* C8: once every key that was inserted has been deleted again, the tree   *)
(* is the empty root: a single leaf with zero keys, no children and        *)
(* aug_val = initial_value().                                              *)
C8_RoundTrip ==
    (dropped = None /\ live = <<>>) =>
        /\ root = new_root
        /\ root.n = 0 /\ is_leaf(root) /\ root.aug_val = A_initial_value

\* The last key has just been deleted.
C8_Witness ==
    /\ last.op = "delete" /\ last.ret # None
    /\ live = <<>>
    /\ root.n = 0

(* C9: dropping the tree drops every node once and every live pair         *)
(* exactly once.                                                           *)
C9_DropReleasesAll ==
    dropped # None =>
        /\ dropped[1].nodes = NodeCount(root)
        /\ Len(dropped[1].pairs) = Len(InOrder(root))
        /\ \A i \in 1..Len(InOrder(root)) :
              Cardinality({j \in 1..Len(dropped[1].pairs) :
                              dropped[1].pairs[j] = InOrder(root)[i]}) = 1

(* C10: after every public insert or delete call, whatever its result,     *)
(* every node's aug_val is the fold of SumAugment over the pairs of the    *)
(* subtree rooted at it, recomputed from scratch.                          *)
C10_SummariesAreFolds == AugOK(root)

\* A tree of height 3 with an internal node of more than one key, reached
\* by a call that changed the tree without changing the map.
C10_Witness ==
    /\ last.op \in {"insert", "delete"} /\ last.changed
    /\ (last.op = "insert" => ~last.ret) /\ (last.op = "delete" => last.ret = None)
    /\ Height(root) = 3
    /\ \E i \in 1..Len(root.children) : root.children[i].n >= 2
    /\ root.aug_val > 0

-----------------------------------------------------------------------------
(* The shape of a tree between public calls.                               *)

\* Every node of the subtree other than its top holds t-1 .. 2t-1 keys.
RECURSIVE BelowCountsOK(_)
BelowCountsOK(self) ==
    \A i \in 1..Len(self.children) :
        /\ self.children[i].n >= MIN_DEGREE - 1
        /\ self.children[i].n <= 2 * MIN_DEGREE - 1
        /\ BelowCountsOK(self.children[i])

\* Some node of the subtree other than its top holds exactly c keys.
RECURSIVE BelowHasCount(_, _)
BelowHasCount(self, c) ==
    \E i \in 1..Len(self.children) :
        self.children[i].n = c \/ BelowHasCount(self.children[i], c)

\* The set of depths at which the leaves of the subtree lie, the top at d.
RECURSIVE LeafDepths(_, _)
LeafDepths(self, d) ==
    IF is_leaf(self) THEN {d}
    ELSE UNION {LeafDepths(self.children[i], d + 1) : i \in 1..Len(self.children)}

\* Every internal node has n + 1 children (a leaf has none by is_leaf).
RECURSIVE ChildCountsOK(_)
ChildCountsOK(self) ==
    /\ is_leaf(self) \/ Len(self.children) = self.n + 1
    /\ \A i \in 1..Len(self.children) : ChildCountsOK(self.children[i])

\* The keys of the subtree lie strictly between lo and hi, every node's
\* live keys increase strictly, and child i lies between keys i-1 and i.
RECURSIVE OrderOK(_, _, _)
OrderOK(self, lo, hi) ==
    /\ \A i \in 1..self.n : lo < self.keys[i][1] /\ self.keys[i][1] < hi
    /\ \A i \in 1..(self.n - 1) : self.keys[i][1] < self.keys[i + 1][1]
    /\ \A i \in 1..Len(self.children) :
          OrderOK(self.children[i],
                  IF i = 1 THEN lo ELSE self.keys[i - 1][1],
                  IF i > self.n THEN hi ELSE self.keys[i][1])

(* C11: after every public insert or delete call, every non-root node      *)
(* holds between t-1 and 2t-1 keys and the root between 0 and 2t-1 keys.   *)
C11_KeyCounts ==
    /\ root.n >= 0 /\ root.n <= 2 * MIN_DEGREE - 1
    /\ BelowCountsOK(root)

\* After a delete, a tree of height 3 whose non-root nodes include one at
\* the lower bound t-1 and one at the upper bound 2t-1.
C11_Witness ==
    /\ last.op = "delete" /\ last.changed
    /\ Height(root) = 3
    /\ BelowHasCount(root, MIN_DEGREE - 1)
    /\ BelowHasCount(root, 2 * MIN_DEGREE - 1)

(* C12: after every public insert or delete call all leaves lie at the     *)
(* same depth; an insert raises the height by one exactly when it splits a *)
(* full root, a delete lowers it by one exactly when it shrinks a keyless  *)
(* internal root, and no call changes the height otherwise.                *)
C12_LeavesLevel ==
    /\ Cardinality(LeafDepths(root, 1)) = 1
    /\ LeafDepths(root, 1) = {Height(root)}
    /\ dropped = None =>
          /\ \A k \in KeySet : \A v \in InsertValues(k) :
                Height(BTree_insert(root, k, v).root)
                    = Height(root) + (IF is_full(root) THEN 1 ELSE 0)
          /\ \A k \in KeySet :
                LET res == delete(root, k) IN
                Height(BTree_delete(root, k).root)
                    = Height(root)
                      - (IF res.node.n = 0 /\ ~is_leaf(res.node) THEN 1 ELSE 0)

\* A delete has just left a tree of height 2 with a full root, which the
\* next insert grows to height 3.
C12_Witness ==
    /\ last.op = "delete" /\ last.changed
    /\ Height(root) = 2
    /\ is_full(root)
    /\ \E k \in KeySet : Height(BTree_insert(root, k, Canon(k)).root) = 3

(* C13: after every public insert or delete call every internal node with  *)
(* n keys has exactly n+1 children and every leaf has none, whatever       *)
(* splits, steals (with child migration) and merges the calls performed.   *)
C13_ChildCounts == ChildCountsOK(root)

\* A tree of height 3 left by a delete, in which one more delete steals a
\* pair and a child for an internal node and leaves a tree of height 3.
C13_Witness ==
    /\ last.op = "delete"
    /\ Height(root) = 3
    /\ \E k \in KeySet :
          LET cs == calls_BTree_delete(root, k) IN
          /\ \E i \in 1..Len(cs) :
                /\ cs[i].fn = "make_space"
                /\ ~is_leaf(Child(cs[i].self, cs[i].idx))
                /\ cs[i].read # {}
          /\ ChildCountsOK(BTree_delete(root, k).root)
          /\ Height(BTree_delete(root, k).root) = 3

(* C14: after every public insert or delete call the live keys of every    *)
(* node increase strictly and every key in the subtree of child i lies     *)
(* strictly between keys i-1 and i of its parent (no bound at the ends);   *)
(* hence no key occurs twice in the tree.                                  *)
C14_Ordered ==
    /\ OrderOK(root, 0, MaxKey + 1)
    /\ \A i \in 1..(Len(InOrder(root)) - 1) :
          InOrder(root)[i][1] < InOrder(root)[i + 1][1]

\* An insert has just put a key into a tree of height 3 that lost keys
\* before, with keys in the root, the middle level and the leaves.
C14_Witness ==
    /\ last.op = "insert" /\ last.ret
    /\ Height(root) = 3
    /\ Len(InOrder(root)) < MaxKey
    /\ root.n >= 1

(* C15: a top-level delete replaces the root by its sole child exactly     *)
(* when the node-level delete left the root internal with zero keys, and   *)
(* the height then drops by exactly one; otherwise the root node is kept.  *)
(* Between public calls the root is never an internal node with no keys.   *)
C15_RootShrink ==
    /\ ~(~is_leaf(root) /\ root.n = 0)
    /\ dropped = None =>
          \A k \in KeySet :
              LET res == delete(root, k)
                  r == BTree_delete(root, k)
              IN  IF ~is_leaf(res.node) /\ res.node.n = 0
                  THEN /\ Len(res.node.children) = 1
                       /\ r.root = res.node.children[1]
                       /\ Height(r.root) = Height(res.node) - 1
                       /\ Height(r.root) = Height(root) - 1
                  ELSE r.root = res.node

\* A tree of height 3 left by a delete, whose root one more delete
\* replaces by its only child, an internal node.
C15_Witness ==
    /\ last.op = "delete"
    /\ Height(root) = 3
    /\ \E k \in KeySet :
          LET res == delete(root, k) IN
          /\ res.node.n = 0 /\ ~is_leaf(res.node)
          /\ Height(BTree_delete(root, k).root) = 2

-----------------------------------------------------------------------------
(* Properties of the calls made inside a delete.                           *)

\* The keys of a subtree in order.
KeysOf(self) == [i \in 1..Len(InOrder(self)) |-> InOrder(self)[i][1]]

\* The key a descent through node `self` is after, in a delete of k: k
\* itself while k has not been found; once k has been found higher up, the
\* largest or the smallest key of the subtree (delete_max / delete_min).
Target(c, k) ==
    LET ks == KeysOf(c.self) IN
    IF k \in DOMAIN live /\ \A i \in 1..Len(ks) : ks[i] # k
    THEN IF c.idx = 0 THEN ks[1] ELSE ks[Len(ks)]
    ELSE k

(* C16: during any delete, every non-root node that the deletion descends  *)
(* into (delete, delete_own, delete_max, delete_min) or removes a pair     *)
(* from holds at least t keys at that moment, so the removal leaves it     *)
(* with at least t-1 keys.                                                 *)
C16_EnterWithSpace ==
    dropped = None =>
    \A k \in KeySet :
        LET cs == calls_BTree_delete(root, k) IN
        \A i \in 1..Len(cs) :
            (/\ cs[i].depth > 0
             /\ cs[i].fn \in {"delete", "delete_own", "delete_max",
                              "delete_min", "remove_pair"})
            => /\ cs[i].self.n >= MIN_DEGREE
               /\ cs[i].fn = "remove_pair" =>
                     remove_pair(cs[i].self, cs[i].idx).node.n >= MIN_DEGREE - 1

\* A tree of height 3 in which a delete finds its key in the root, makes
\* space below it and takes the replacement pair from a leaf.
C16_Witness ==
    /\ Height(root) = 3
    /\ \E k \in DOMAIN live :
          LET cs == calls_BTree_delete(root, k) IN
          /\ \E i \in 1..Len(cs) : cs[i].fn = "delete_own" /\ cs[i].depth = 0
          /\ \E i \in 1..Len(cs) : cs[i].fn = "make_space" /\ cs[i].depth = 1
          /\ \E i \in 1..Len(cs) :
                cs[i].fn \in {"delete_max", "delete_min"} /\ cs[i].depth = 2

\* What C17 says of one call make_space(idx) on node self in a delete
\* that is after key target.
MakeSpaceAsSpecified(self, idx, target) ==
    LET r == make_space(self, idx)
        thief == Child(self, idx)
        has_left == idx > 0
        has_right == idx < self.n
        left_rich == has_left /\ Child(self, idx - 1).n >= MIN_DEGREE
        right_rich == has_right /\ Child(self, idx + 1).n >= MIN_DEGREE
    IN  /\ ~is_leaf(self) /\ thief.n = MIN_DEGREE - 1
        /\ InOrder(r.node) = InOrder(self)
        /\ IF left_rich THEN
              \* steal from the left sibling
              /\ r.idx = idx /\ r.node.n = self.n
              /\ Len(r.node.children) = Len(self.children)
              /\ Child(r.node, idx - 1).n = Child(self, idx - 1).n - 1
              /\ Child(r.node, idx).n = MIN_DEGREE
              /\ r.node.keys[idx] = Child(self, idx - 1).keys[Child(self, idx - 1).n]
              /\ Child(r.node, idx).keys[1] = self.keys[idx]
              /\ \A j \in 1..Len(self.children) :
                    j \notin {idx, idx + 1} => r.node.children[j] = self.children[j]
           ELSE IF right_rich THEN
              \* steal from the right sibling
              /\ r.idx = idx /\ r.node.n = self.n
              /\ Len(r.node.children) = Len(self.children)
              /\ Child(r.node, idx + 1).n = Child(self, idx + 1).n - 1
              /\ Child(r.node, idx).n = MIN_DEGREE
              /\ r.node.keys[idx + 1] = Child(self, idx + 1).keys[1]
              /\ Child(r.node, idx).keys[MIN_DEGREE] = self.keys[idx + 1]
              /\ \A j \in 1..Len(self.children) :
                    j \notin {idx + 1, idx + 2} => r.node.children[j] = self.children[j]
           ELSE IF has_left THEN
              \* merge with the left sibling
              /\ r.idx = idx - 1 /\ r.node.n = self.n - 1
              /\ Len(r.node.children) = Len(self.children) - 1
              /\ Child(r.node, idx - 1).n = 2 * MIN_DEGREE - 1
              /\ InOrder(Child(r.node, idx - 1))
                    = InOrder(Child(self, idx - 1)) \o <<self.keys[idx]>>
                      \o InOrder(thief)
           ELSE
              \* merge with the right sibling
              /\ has_right
              /\ r.idx = idx /\ r.node.n = self.n - 1
              /\ Len(r.node.children) = Len(self.children) - 1
              /\ Child(r.node, idx).n = 2 * MIN_DEGREE - 1
              /\ InOrder(Child(r.node, idx))
                    = InOrder(thief) \o <<self.keys[idx + 1]>>
                      \o InOrder(Child(self, idx + 1))
        /\ (r.idx = idx - 1) <=> (~left_rich /\ ~right_rich /\ has_left)
        /\ r.idx \in {idx, idx - 1}
        /\ Child(r.node, r.idx).n >= MIN_DEGREE
        /\ r.idx = 0 \/ r.node.keys[r.idx][1] < target
        /\ r.idx = r.node.n \/ target < r.node.keys[r.idx + 1][1]

(* C17: every make_space(idx) call is made on an internal node whose child *)
(* idx has t-1 keys and performs exactly one move, chosen in the order:    *)
(* steal from the left sibling if it exists and has >= t keys; else steal  *)
(* from the right sibling if it exists and has >= t keys; else merge with  *)
(* the left sibling if idx > 0; else merge with the right sibling.  It     *)
(* returns idx-1 exactly in the merge-with-left case and idx otherwise;    *)
(* afterwards the child at the returned index has at least t keys and its  *)
(* key range contains the key being deleted.                               *)
C17_MakeSpace ==
    dropped = None =>
    \A k \in KeySet :
        LET cs == calls_BTree_delete(root, k) IN
        \A i \in 1..Len(cs) :
            cs[i].fn = "make_space" =>
                MakeSpaceAsSpecified(cs[i].self, cs[i].idx, Target(cs[i], k))

\* A tree of height 3 in which some delete makes space for a child while
\* both its siblings could give a pair (the left one is chosen), and some
\* delete merges a child with its left sibling.
C17_Witness ==
    /\ Height(root) = 3
    /\ \E k \in KeySet :
          LET cs == calls_BTree_delete(root, k) IN
          \E i \in 1..Len(cs) :
              /\ cs[i].fn = "make_space"
              /\ cs[i].idx > 0 /\ cs[i].idx < cs[i].self.n
              /\ ~is_min(Child(cs[i].self, cs[i].idx - 1))
              /\ ~is_min(Child(cs[i].self, cs[i].idx + 1))
    /\ \E k \in KeySet :
          LET cs == calls_BTree_delete(root, k) IN
          \E i \in 1..Len(cs) :
              /\ cs[i].fn = "make_space"
              /\ make_space(cs[i].self, cs[i].idx).idx = cs[i].idx - 1

\* The pairs of s whose key is not key
PairsWithout(s, key) == SelectSeq(s, LAMBDA p : p[1] # key)

\* What C18 says of one call delete_own(key, idx) on node self; cs is the
\* list of calls of the delete and depth the depth of self.
DeleteOwnAsSpecified(self, key, idx, depth, cs) ==
    LET d == delete_own(self, key, idx)
        L == Child(self, idx)
        R == Child(self, idx + 1)
    IN  /\ idx < self.n
        /\ self.keys[idx + 1][1] = key
        /\ d.value = self.keys[idx + 1][2]
        /\ InOrder(d.node) = PairsWithout(InOrder(self), key)
        /\ Len(InOrder(d.node)) = Len(InOrder(self)) - 1
        /\ IF is_leaf(self) THEN d.node.n = self.n - 1
           ELSE IF L.n >= MIN_DEGREE THEN
              \* the in-order predecessor moves up
              /\ d.node.n = self.n
              /\ d.node.keys[idx + 1] = InOrder(L)[Len(InOrder(L))]
              /\ InOrder(Child(d.node, idx))
                    = SubSeq(InOrder(L), 1, Len(InOrder(L)) - 1)
              /\ Child(d.node, idx + 1) = R
           ELSE IF R.n >= MIN_DEGREE THEN
              \* the in-order successor moves up
              /\ d.node.n = self.n
              /\ d.node.keys[idx + 1] = InOrder(R)[1]
              /\ InOrder(Child(d.node, idx + 1)) = Tail(InOrder(R))
              /\ Child(d.node, idx) = L
           ELSE
              \* merge around the key, then delete it from the merged child
              LET m == merge_children(self, idx) IN
              /\ d.node.n = self.n - 1
              /\ Len(d.node.children) = Len(self.children) - 1
              /\ Child(m, idx).n = 2 * MIN_DEGREE - 1
              /\ Child(m, idx).keys[MIN_DEGREE] = self.keys[idx + 1]
              /\ InOrder(Child(m, idx))
                    = InOrder(L) \o <<self.keys[idx + 1]>> \o InOrder(R)
              /\ InOrder(Child(d.node, idx)) = InOrder(L) \o InOrder(R)
              /\ \E j \in 1..Len(cs) :
                    /\ cs[j].fn = "delete_own"
                    /\ cs[j].self = Child(m, idx)
                    /\ cs[j].idx = MIN_DEGREE - 1
                    /\ cs[j].depth = depth + 1

(* C18: when delete finds the key at index idx of an internal node: if the *)
(* left child idx has >= t keys, keys[idx] becomes the maximum pair of     *)
(* that child's subtree, which is removed from it; else if the right child *)
(* idx+1 has >= t keys, keys[idx] becomes the minimum pair of that         *)
(* subtree; else the two children are merged around the key and the key is *)
(* deleted from the merged child, where it sits at index t-1.  In every    *)
(* case the value returned is the one that was stored with the key.        *)
C18_DeleteOwn ==
    dropped = None =>
    \A k \in DOMAIN live :
        LET cs == calls_BTree_delete(root, k) IN
        /\ BTree_delete(root, k).ret = Some(live[k])
        /\ \E i \in 1..Len(cs) : cs[i].fn = "delete_own"
        /\ \A i \in 1..Len(cs) :
              cs[i].fn = "delete_own" =>
                  /\ cs[i].self.keys[cs[i].idx + 1] = <<k, live[k]>>
                  /\ DeleteOwnAsSpecified(cs[i].self, k, cs[i].idx,
                                          cs[i].depth, cs)

\* A tree of height 3 in which a delete finds its key in the root between
\* two minimal children, merges them, finds the key again in the merged
\* internal node and replaces it there by a neighbour from a leaf.
C18_Witness ==
    /\ Height(root) = 3
    /\ \E k \in DOMAIN live :
          LET cs == calls_BTree_delete(root, k) IN
          /\ \E i \in 1..Len(cs) :
                /\ cs[i].fn = "delete_own" /\ cs[i].depth = 0
                /\ is_min(Child(cs[i].self, cs[i].idx))
                /\ is_min(Child(cs[i].self, cs[i].idx + 1))
          /\ \E i \in 1..Len(cs) :
                /\ cs[i].fn = "delete_own" /\ cs[i].depth = 1
                /\ ~is_leaf(cs[i].self)
          /\ \E i \in 1..Len(cs) :
                cs[i].fn \in {"delete_max", "delete_min"} /\ cs[i].depth = 2

-----------------------------------------------------------------------------
(* Properties of every call a public operation makes.                      *)

\* The precondition of the node primitive that call c invokes
\* (debug_assert! and `# Safety` of split, insert_pair, insert_non_full,
\* remove_pair, merge_children).
PreconditionHolds(c) ==
    /\ c.fn = "split" => c.self.n = 2 * MIN_DEGREE - 1
    /\ c.fn = "insert_pair" =>
          c.self.n < 2 * MIN_DEGREE - 1 /\ c.idx <= c.self.n
    /\ c.fn = "insert_non_full" => c.self.n # 2 * MIN_DEGREE - 1
    /\ c.fn = "remove_pair" => c.self.n > 0 /\ c.idx < c.self.n
    /\ c.fn = "merge_children" =>
          /\ c.idx + 2 <= Len(c.self.children)
          /\ Child(c.self, c.idx).n = MIN_DEGREE - 1
          /\ Child(c.self, c.idx + 1).n = MIN_DEGREE - 1

(* C19: in every execution of any sequence of public insert and delete     *)
(* calls, at each call of a node primitive its precondition holds: split   *)
(* on a node with exactly 2t-1 keys, insert_pair on a node with fewer than *)
(* 2t-1 keys and idx <= n, insert_non_full on a non-full node, remove_pair *)
(* with idx < n on a non-empty node, merge_children when children idx and  *)
(* idx+1 both exist and both hold exactly t-1 keys.                        *)
C19_Preconditions ==
    dropped = None =>
    /\ \A k \in KeySet : \A v \in InsertValues(k) :
          LET cs == calls_BTree_insert(root, k, v) IN
          \A i \in 1..Len(cs) : PreconditionHolds(cs[i])
    /\ \A k \in KeySet :
          LET cs == calls_BTree_delete(root, k) IN
          \A i \in 1..Len(cs) : PreconditionHolds(cs[i])

\* A tree of height 3 in which some insert splits a full leaf and some
\* delete merges two children of a non-root node and removes a pair from
\* a leaf.
C19_Witness ==
    /\ Height(root) = 3
    /\ \E k \in KeySet :
          LET cs == calls_BTree_insert(root, k, Canon(k)) IN
          /\ \E i \in 1..Len(cs) : cs[i].fn = "split" /\ cs[i].depth = 2
          /\ \E i \in 1..Len(cs) : cs[i].fn = "insert_pair" /\ cs[i].depth = 2
          /\ BTree_insert(root, k, Canon(k)).ret
    /\ \E k \in KeySet :
          LET cs == calls_BTree_delete(root, k) IN
          /\ \E i \in 1..Len(cs) : cs[i].fn = "merge_children" /\ cs[i].depth = 1
          /\ \E i \in 1..Len(cs) : cs[i].fn = "remove_pair" /\ cs[i].depth = 2

\* Exactly the first n slots of every node of the subtree hold pairs.
RECURSIVE SlotsOK(_)
SlotsOK(self) ==
    /\ \A i \in 1..Cap : (self.keys[i] # NEW_KEY) <=> (i <= self.n)
    /\ \A i \in 1..Len(self.children) : SlotsOK(self.children[i])

(* C20: with each key slot either holding a pair or being empty (a tail    *)
(* slot, or a slot whose pair was moved out), no call made by insert,      *)
(* delete, search or augment_search reads as a pair a slot that is empty   *)
(* at that moment, and after every public call exactly the first n slots   *)
(* of each node hold pairs.                                                *)
C20_NoEmptySlotRead ==
    /\ SlotsOK(root)
    /\ dropped = None =>
          /\ \A k \in KeySet : \A v \in InsertValues(k) :
                LET cs == calls_BTree_insert(root, k, v) IN
                \A i \in 1..Len(cs) : NEW_KEY \notin cs[i].read
          /\ \A k \in KeySet :
                LET cs == calls_BTree_delete(root, k) IN
                \A i \in 1..Len(cs) : NEW_KEY \notin cs[i].read
          /\ \A k \in QuerySet :
                LET cs == calls_search(root, k, 0) IN
                \A i \in 1..Len(cs) : NEW_KEY \notin cs[i].read

\* A tree of height 3 left by a delete, with slots that were vacated, in
\* which one delete merges two internal nodes (reading the right one's
\* pairs) and then steals a pair for a leaf.
C20_Witness ==
    /\ last.op = "delete" /\ last.ret # None
    /\ Height(root) = 3
    /\ \E k \in KeySet :
          LET cs == calls_BTree_delete(root, k) IN
          /\ \E i \in 1..Len(cs) :
                /\ cs[i].fn = "merge_children.right_child"
                /\ ~is_leaf(cs[i].self) /\ cs[i].read # {}
          /\ \E i \in 1..Len(cs) :
                /\ cs[i].fn = "make_space" /\ cs[i].read # {}
                /\ is_leaf(Child(cs[i].self, cs[i].idx))

-----------------------------------------------------------------------------
(* Properties of the augmentation events of an insert.                     *)

\* The nodes a search for key passes, from the top down to the node that
\* holds key or to a leaf.
RECURSIVE PathTo(_, _)
PathTo(self, key) ==
    LET f == find_key_idx(self, key) IN
    IF f.found \/ is_leaf(self) THEN <<self>>
    ELSE <<self>> \o PathTo(Child(self, f.idx), key)

\* The positions in es of the events of kind ev on the node at depth d.
EventsAt(es, ev, d) == {i \in 1..Len(es) : es[i].ev = ev /\ es[i].depth = d}

\* The nodes insert_non_full is called on, in call order (depth 0, 1, ...).
Entered(cs) == SelectSeq(cs, LAMBDA c : c.fn = "insert_non_full")

(* C21: an insert that returns true applies inserted_sub_tree exactly once *)
(* to each node of the final root-to-leaf descent path and never applies   *)
(* deleted_sub_tree.  In an insert that returns false every                *)
(* inserted_sub_tree applied to a node is undone by exactly one later      *)
(* deleted_sub_tree on the same node with the same key and value, and the  *)
(* node where the duplicate is detected, and every node below it, receives *)
(* no event.  The summary each node of the path ends with is the one it    *)
(* was entered with, changed by exactly the events applied to it.          *)
C21_OneEventPerInsert ==
    dropped = None =>
    \A k \in KeySet : \A v \in InsertValues(k) :
        LET r == BTree_insert(root, k, v)
            es == events_BTree_insert(root, k, v)
            en == Entered(calls_BTree_insert(root, k, v))
            path == PathTo(r.root, k)
        IN  /\ \A i \in 1..Len(es) : es[i].key = k /\ es[i].value = v
            /\ Len(en) = Len(path)
            /\ \A i \in 1..Len(en) : en[i].depth = i - 1
            /\ r.ret =>
                  /\ is_leaf(path[Len(path)])
                  /\ Len(es) = Len(path)
                  /\ \A d \in 0..(Len(path) - 1) :
                        /\ Cardinality(EventsAt(es, "inserted_sub_tree", d)) = 1
                        /\ EventsAt(es, "deleted_sub_tree", d) = {}
                        /\ path[d + 1].aug_val
                              = A_inserted_sub_tree(k, v, en[d + 1].self.aug_val)
            /\ ~r.ret =>
                  /\ Len(es) = 2 * (Len(path) - 1)
                  /\ \A i \in 1..Len(es) : es[i].depth < Len(path) - 1
                  /\ \A d \in 0..(Len(path) - 1) :
                        /\ Cardinality(EventsAt(es, "inserted_sub_tree", d))
                              = (IF d < Len(path) - 1 THEN 1 ELSE 0)
                        /\ Cardinality(EventsAt(es, "deleted_sub_tree", d))
                              = Cardinality(EventsAt(es, "inserted_sub_tree", d))
                        /\ \A i \in EventsAt(es, "inserted_sub_tree", d) :
                              \A j \in EventsAt(es, "deleted_sub_tree", d) : i < j
                        /\ path[d + 1].aug_val = en[d + 1].self.aug_val

\* A tree of height 3 in which one insert is refused at a leaf (two nodes
\* are updated and restored), one is refused at the median of a leaf that
\* is split on the way, and one succeeds with three events.
C21_Witness ==
    /\ Height(root) = 3
    /\ \E k \in DOMAIN live :
          /\ ~BTree_insert(root, k, Alt(k)).ret
          /\ Len(events_BTree_insert(root, k, Alt(k))) = 4
    /\ \E k \in DOMAIN live :
          LET cs == calls_BTree_insert(root, k, Alt(k)) IN
          /\ \E i \in 1..Len(cs) : cs[i].fn = "split"
          /\ cs[Len(cs)].fn = "insert_non_full.split_key"
          /\ Len(events_BTree_insert(root, k, Alt(k))) = 2
    /\ \E k \in KeySet \ DOMAIN live :
          Len(events_BTree_insert(root, k, Canon(k))) = 3

-----------------------------------------------------------------------------
(* Properties of the recursion of the public operations.                   *)

\* The calls that enter a node: the recursive functions of the descent.
Visits(cs) ==
    SelectSeq(cs, LAMBDA c : c.fn \in {"insert_non_full", "search", "delete",
                                       "delete_own", "delete_max", "delete_min"})

\* The descent listed in cs starts at the top of a tree of height h, moves
\* exactly one level down with every step to another node (the height of
\* the subtree entered drops by one; delete handing its own node to
\* delete_own is no step), visits no level twice, and is finite (at most 8
\* calls are listed per level).
SingleDescent(cs, h) ==
    LET vs == Visits(cs) IN
    /\ Len(vs) >= 1
    /\ vs[1].depth = 0 /\ Height(vs[1].self) = h
    /\ \A i \in 1..Len(vs) :
          /\ Height(vs[i].self) = h - vs[i].depth
          /\ vs[i].depth + 1 <= h
    /\ \A i \in 1..(Len(vs) - 1) :
          \/ vs[i + 1].depth = vs[i].depth + 1
          \/ /\ vs[i + 1].depth = vs[i].depth
             /\ vs[i].fn = "delete" /\ vs[i + 1].fn = "delete_own"
             /\ vs[i + 1].self = vs[i].self
    /\ \A i, j \in 1..Len(vs) :
          (i < j /\ vs[i].depth = vs[j].depth) =>
              (j = i + 1 /\ vs[i].fn = "delete" /\ vs[j].fn = "delete_own")
    /\ Len(cs) <= 8 * h

(* C22: every insert, delete, search and augment_search call follows a     *)
(* single descent from the root towards a leaf: each recursive step moves  *)
(* exactly one level down, each level is visited at most once, and the     *)
(* number of levels visited never exceeds the height of the tree plus one  *)
(* (the one is the level an insert adds by splitting a full root), so the  *)
(* call terminates.                                                        *)
C22_SingleDescent ==
    dropped = None =>
    /\ \A k \in KeySet : \A v \in InsertValues(k) :
          LET cs == calls_BTree_insert(root, k, v) IN
          /\ SingleDescent(cs, Height(root) + (IF is_full(root) THEN 1 ELSE 0))
          /\ Visits(cs)[Len(Visits(cs))].depth + 1 <= Height(root) + 1
    /\ \A k \in KeySet :
          LET cs == calls_BTree_delete(root, k) IN
          /\ SingleDescent(cs, Height(root))
          /\ Visits(cs)[Len(Visits(cs))].depth + 1 <= Height(root) + 1
    /\ \A k \in QuerySet :
          LET cs == calls_search(root, k, 0) IN
          /\ SingleDescent(cs, Height(root))
          /\ Visits(cs)[Len(Visits(cs))].depth + 1 <= Height(root) + 1

\* A tree of height 2 with a full root: an insert visits three levels (the
\* height plus one), a delete of a root key goes through delete_own into a
\* leaf, and a search reaches a leaf.
C22_Witness ==
    /\ Height(root) = 2 /\ is_full(root)
    /\ \E k \in KeySet \ DOMAIN live :
          LET vs == Visits(calls_BTree_insert(root, k, Canon(k))) IN
          vs[Len(vs)].depth = 2
    /\ \E k \in DOMAIN live :
          LET vs == Visits(calls_BTree_delete(root, k)) IN
          /\ Len(vs) = 3 /\ vs[2].fn = "delete_own"
          /\ vs[3].fn \in {"delete_max", "delete_min"}
    /\ \E k \in QuerySet :
          LET vs == Visits(calls_search(root, k, 0)) IN vs[Len(vs)].depth = 1

-----------------------------------------------------------------------------
(* Properties of the arithmetic of SumAugment.                             *)

IntMax == 2 ^ (IntBits - 1) - 1

IntMin == - (2 ^ (IntBits - 1))

InRange(x) == IntMin <= x /\ x <= IntMax

(* C23 as stated: with non-negative values of a bounded integer type, if   *)
(* the sum of all live values fits in the type both before and after an    *)
(* insert call, no summary computed during the call leaves the range of    *)
(* the type; in particular not the tentative inserted_sub_tree update of   *)
(* an insert that is refused as a duplicate.                               *)
C23_NoOverflow ==
    dropped = None =>
    \A k \in KeySet : \A v \in InsertValues(k) :
        LET r == BTree_insert(root, k, v)
            cs == sums_BTree_insert(root, k, v)
        IN  (/\ v >= 0 /\ InRange(v)
             /\ \A i \in 1..Len(InOrder(root)) :
                   InOrder(root)[i][2] >= 0 /\ InRange(InOrder(root)[i][2])
             /\ InRange(Fold(root))
             /\ InRange(Fold(r.root)))
            => \A i \in 1..Len(cs) : InRange(cs[i])

=============================================================================
